---- MODULE Spec2Model ----
(***************************************************************************)
(* A model of the text buffer of src/src/buffer.rs: the line sequence, the *)
(* cursor with its column affinity and selection anchor, the highlight     *)
(* index, the scroll offset and the viewport size, and every public        *)
(* handler of Buffer.                                                      *)
(*                                                                         *)
(* Strings are sequences of one-character strings.  Every character of the *)
(* model is a one-byte (ASCII) character, so that a byte offset into a     *)
(* String, which is what the code's columns are, is also a character       *)
(* index; text beyond ASCII is outside what the model covers.              *)
(* Rows and columns are 0-based as in the code; TLA+ sequences are         *)
(* 1-based, so line r of the code is lines[r + 1].  f32 values (scroll,    *)
(* SCALE, pixel positions) only take integer values here, which f32        *)
(* represents exactly, so they are modelled as integers.                   *)
(***************************************************************************)
EXTENDS Integers, Sequences, FiniteSets, TLC

\* ------------------------------------------------------------------ bounds

\* The largest number of lines and of characters (over all lines) a buffer
\* of the model holds: an edit that would exceed either is not taken.
MaxLines == 2
MaxChars == 2
\* The longest file content Buffer::new reads.
MaxFileLen == 2
\* The most lines, and the longest line, of the documents the methods of Span
\* are called on.
MaxSpanLines == 3
MaxLineLen == 1

\* --------------------------------------------------------------- constants

\* const SCALE: f32 = 40.0, the line height in pixels.
SCALE == 40
\* The bottom margin ensure_cursor_in_view and scroll add (5.0).
Margin == 5
\* hit_test's x_pad and line-number padding, and its fixed advance width
\* h_advance = 19.065777, held as a fraction HAdvanceNum / HAdvanceDen.
XPad == 10
GutterPad == 30
HAdvanceNum == 19065777
HAdvanceDen == 1000000

\* ------------------------------------------------------------------ inputs

\* Ordinary characters a user types or a file holds.
Alphabet == {"a", "b"}
Letter == {"a"}
\* The chars handle_char_input treats specially: '\n', '\r', backspace
\* '\u{8}', delete '\u{7f}' and '\t'.
Backspace == "<U+8>"
Delete == "<U+7F>"
Controls == {"\n", "\r", Backspace, Delete, "\t"}
\* winit's VirtualKeyCode values that matter, one other key, and no keycode.
KeyCodes == {"Up", "Down", "Left", "Right", "A", "NoKeycode"}
ElementStates == {"Pressed", "Released"}
MouseButtons == {"Left", "Right"}
\* Viewport heights in pixels: a minimised window, one that holds a line but
\* not a line and the margin, and one that holds a line and the margin.
Heights == {0, 42, 50}
\* Pointer positions in pixels (y may be negative: a drag above the window).
PositionXs == {0, 70, 300}
PositionYs == {-50, 45, 500}
\* Scroll deltas in pixels.
Deltas == {-40, 40}

\* ----------------------------------------------------------------- helpers

Min(a, b) == IF a <= b THEN a ELSE b
Max(a, b) == IF a >= b THEN a ELSE b

\* Option<T>: None is the empty sequence, Some(x) the one-element sequence.
None == <<>>
Some(x) == <<x>>
IsNone(o) == o = <<>>
Unwrap(o) == o[1]

RECURSIVE SeqsUpTo(_, _)
\* All sequences over S of length at most n.
SeqsUpTo(S, n) ==
    IF n = 0 THEN {<<>>}
    ELSE LET shorter == SeqsUpTo(S, n - 1)
         IN shorter \cup {Append(s, x) : s \in {t \in shorter : Len(t) = n - 1}, x \in S}

RECURSIVE TotalChars(_)
TotalChars(ls) == IF ls = <<>> THEN 0 ELSE Len(Head(ls)) + TotalChars(Tail(ls))

\* --------------------------------------------------- String and Vec methods

\* String::split_off(at): the string keeps [0, at), the result is [at, len).
SplitOffHead(s, at) == SubSeq(s, 1, at)
SplitOffTail(s, at) == SubSeq(s, at + 1, Len(s))
\* String::remove(idx) and Vec::remove(idx): drop the element at index idx.
RemoveAt(s, idx) == SubSeq(s, 1, idx) \o SubSeq(s, idx + 2, Len(s))
\* String::insert(idx, ch) and Vec::insert(idx, x).
InsertAt(s, idx, x) == SubSeq(s, 1, idx) \o <<x>> \o SubSeq(s, idx + 1, Len(s))

RECURSIVE split(_)
\* str::split('\n'): the pieces between the separators, so that n separators
\* give n + 1 pieces and the empty string gives one empty piece.
split(file) ==
    IF \A i \in 1..Len(file) : file[i] # "\n" THEN <<file>>
    ELSE LET i == CHOOSE k \in 1..Len(file) :
                      file[k] = "\n" /\ \A j \in 1..(k - 1) : file[j] # "\n"
         IN <<SubSeq(file, 1, i - 1)>> \o split(SubSeq(file, i + 1, Len(file)))

RECURSIVE join(_)
\* [String]::join("\n"): the lines with one '\n' between neighbours.
join(ls) ==
    IF ls = <<>> THEN <<>>
    ELSE IF Len(ls) = 1 THEN ls[1]
    ELSE ls[1] \o <<"\n">> \o join(Tail(ls))

\* ------------------------------------------------------------- highlighting

\* The highlighter is syntect, outside this repository.  It is modelled by a
\* small stand-in with the same shape: a parse state threaded from line to
\* line ("b" opens and closes a literal), and per line the maximal runs of
\* equal colour as <<start, end, colour>> with start inclusive, end exclusive.
RECURSIVE ParseLine(_, _)
\* ParseState::parse_line: the parse state after the line.
ParseLine(state, line) ==
    IF line = <<>> THEN state
    ELSE ParseLine(IF Head(line) = "b" THEN 1 - state ELSE state, Tail(line))

RECURSIVE Colours(_, _)
\* The colour of each character of the line, given the state before it.
Colours(state, line) ==
    IF line = <<>> THEN <<>>
    ELSE IF Head(line) = "b" THEN <<"delimiter">> \o Colours(1 - state, Tail(line))
    ELSE <<IF state = 1 THEN "literal" ELSE "plain">> \o Colours(state, Tail(line))

RECURSIVE Runs(_, _)
\* RangedHighlightIterator: the maximal runs of equal colour from column
\* `from` on, in increasing order.
Runs(colours, from) ==
    IF from >= Len(colours) THEN <<>>
    ELSE LET stop == CHOOSE e \in (from + 1)..Len(colours) :
                         /\ \A i \in (from + 1)..e : colours[i] = colours[from + 1]
                         /\ e = Len(colours) \/ colours[e + 1] # colours[from + 1]
         IN <<<<from, stop, colours[from + 1]>>>> \o Runs(colours, stop)

RECURSIVE StateBefore(_, _)
\* The parse state before line i (1-based), parsing from the first line.
StateBefore(ls, i) ==
    IF i <= 1 THEN 0 ELSE ParseLine(StateBefore(ls, i - 1), ls[i - 1])

\* The run list of every line, in order, with the parse state carried across
\* lines.
HighlightLines(ls) ==
    [i \in 1..Len(ls) |-> Runs(Colours(StateBefore(ls, i), ls[i]), 0)]

\* A rebuild that does not clear the index before it pushes.
generate_highlight_info_unclear(ls, info) == info \o HighlightLines(ls)

\* generate_highlight_info(lines, info, ..): the index `info` after the call:
\* cleared, then one run list pushed per line.
generate_highlight_info(ls, info) ==
    LET cleared == <<>>
    IN cleared \o HighlightLines(ls)

\* ------------------------------------------------------- Location and Span

Location(r, c) == [row |-> r, col |-> c]

\* An order on Location that compares the column before the row.
location_le_col_first(a, b) == a.col < b.col \/ (a.col = b.col /\ a.row <= b.row)

\* #[derive(PartialOrd, Ord)] on Location: a <= b, the fields compared in
\* the order they are declared, row then col.
location_le(a, b) == a.row < b.row \/ (a.row = b.row /\ a.col <= b.col)

\* Ord::min and Ord::max on Location.
location_min(a, b) == IF location_le(a, b) THEN a ELSE b
location_max(a, b) == IF location_le(a, b) THEN b ELSE a

\* Span::new
span_new(start, end) ==
    [start |-> location_min(start, end), end |-> location_max(start, end)]

\* A contains_line that leaves out the span's first row.
contains_line_after_start(span, line) == span.start.row < line /\ span.end.row >= line

\* Span::contains_line
contains_line(span, line) == span.start.row <= line /\ span.end.row >= line

\* Span::get_char_indices_for_line: None, or Some(<<first, past-the-last>>).
get_char_indices_for_line(span, line, line_length) ==
    IF ~contains_line(span, line) THEN None
    ELSE IF span.start.row = span.end.row THEN Some(<<span.start.col, span.end.col>>)
    ELSE IF span.start.row = line THEN Some(<<span.start.col, line_length>>)
    ELSE IF span.end.row = line THEN Some(<<0, span.end.col>>)
    ELSE Some(<<0, line_length>>)

\* ------------------------------------------------------------------ Cursor

\* Cursor::new
NewCursor == [location |-> Location(0, 0), col_affinity |-> 0, selection_start |-> None]

set_row(cursor, r) == [cursor EXCEPT !.location.row = r]
set_col(cursor, c) == [cursor EXCEPT !.location.col = c]
set_col_with_affinity(cursor, c) ==
    [cursor EXCEPT !.location.col = c, !.col_affinity = c]

\* Cursor::selection_span
selection_span(cursor) ==
    IF IsNone(cursor.selection_start) THEN None
    ELSE Some(span_new(Unwrap(cursor.selection_start), cursor.location))

\* ------------------------------------------------------------------ Buffer

\* A Buffer value holds the fields of struct Buffer that the handlers read or
\* write, and `panicked`, set when a handler indexes out of range (the
\* program then stops).

\* str::lines(): as split('\n'), but a final empty piece is left out.
str_lines(file) ==
    LET pieces == split(file)
    IN IF pieces[Len(pieces)] = <<>> THEN SubSeq(pieces, 1, Len(pieces) - 1) ELSE pieces

\* Buffer::new reading the file with str::lines() and keeping what it gives.
new_str_lines(height, file) ==
    LET ls == str_lines(file)
    IN [lines |-> ls,
        highlight_info |-> generate_highlight_info(ls, <<>>),
        scroll |-> 0,
        cursor |-> NewCursor,
        dragging |-> FALSE,
        size |-> [height |-> height],
        panicked |-> FALSE]

\* Buffer::new for a file content and a viewport height.
new(height, file) ==
    LET pieces == split(file)
        ls == IF pieces = <<>> THEN <<<<>>>> ELSE pieces
    IN [lines |-> ls,
        highlight_info |-> generate_highlight_info(ls, <<>>),
        scroll |-> 0,
        cursor |-> NewCursor,
        dragging |-> FALSE,
        size |-> [height |-> height],
        panicked |-> FALSE]

RECURSIVE terminate(_)
\* The lines, each followed by a '\n'.
terminate(ls) ==
    IF ls = <<>> THEN <<>> ELSE Head(ls) \o <<"\n">> \o terminate(Tail(ls))

\* A save that ends every line with a '\n'.
save_terminated(b) == terminate(b.lines)

\* Buffer::save: the content written to the path.
save(b) == join(b.lines)

\* Buffer::update_size
update_size(b, height) == [b EXCEPT !.size = [height |-> height]]

\* A panic: the handler stops where it is.
Panic(b) == [b EXCEPT !.panicked = TRUE]

\* Buffer::ensure_cursor_in_view
ensure_cursor_in_view(b) ==
    LET cursor_y == b.cursor.location.row * SCALE
        bottom == b.scroll + b.size.height
    IN IF cursor_y < b.scroll THEN [b EXCEPT !.scroll = cursor_y]
       ELSE IF cursor_y + SCALE > bottom
            THEN [b EXCEPT !.scroll = cursor_y - b.size.height + SCALE + Margin]
            ELSE b

\* Buffer::scroll
scroll_by(b, delta) ==
    LET max_scroll == IF b.lines = <<>> THEN 0
                      ELSE (Len(b.lines) - 1) * SCALE + Margin
    IN [b EXCEPT !.scroll = Min(Max(b.scroll + delta, 0), max_scroll)]

RECURSIVE digit_count(_)
\* lines.len().to_string().chars().count()
digit_count(n) == IF n < 10 THEN 1 ELSE 1 + digit_count(n \div 10)

\* f32::round of num / den for num >= 0, den > 0 (half away from zero).
RoundDiv(num, den) == (2 * num + den) \div (2 * den)

\* A hit test that does not clamp the column to the line's length.
hit_test_unclamped(b, position) ==
    LET gutter_offset == XPad + GutterPad + digit_count(Len(b.lines)) * (SCALE \div 2)
        abs_x == Max(position[1] - gutter_offset, 0)
        abs_y == position[2] + b.scroll
        line == Max(abs_y \div SCALE, 0)
    IN IF line >= Len(b.lines)
       THEN Location(Len(b.lines) - 1, Len(b.lines[Len(b.lines)]))
       ELSE Location(line, RoundDiv(abs_x * HAdvanceDen, HAdvanceNum))

\* Buffer::hit_test: the Location under the pointer position <<x, y>>.  The
\* cast `as usize` of a negative row saturates to 0.
hit_test(b, position) ==
    LET gutter_offset == XPad + GutterPad + digit_count(Len(b.lines)) * (SCALE \div 2)
        abs_x == Max(position[1] - gutter_offset, 0)
        abs_y == position[2] + b.scroll
        line == Max(abs_y \div SCALE, 0)
    IN IF line >= Len(b.lines)
       THEN Location(Len(b.lines) - 1, Len(b.lines[Len(b.lines)]))
       ELSE Location(line, Min(RoundDiv(abs_x * HAdvanceDen, HAdvanceNum),
                               Len(b.lines[line + 1])))

\* Buffer::handle_mouse_input
handle_mouse_input(b, button, state, position) ==
    IF button = "Left"
    THEN IF state = "Pressed"
         THEN LET location == hit_test(b, position)
                  c0 == [b.cursor EXCEPT !.selection_start = None]
              IN [b EXCEPT !.cursor = set_col_with_affinity(set_row(c0, location.row),
                                                            location.col),
                           !.dragging = TRUE]
         ELSE [b EXCEPT !.dragging = FALSE]
    ELSE b

\* Buffer::handle_mouse_move
handle_mouse_move(b, position) ==
    IF b.dragging
    THEN LET c0 == IF IsNone(b.cursor.selection_start)
                   THEN [b.cursor EXCEPT !.selection_start = Some(b.cursor.location)]
                   ELSE b.cursor
             location == hit_test(b, position)
         IN [b EXCEPT !.cursor = set_col_with_affinity(set_row(c0, location.row),
                                                       location.col)]
    ELSE b

\* Whether the cursor's row indexes a line, and its column is at most idx
\* characters short of the end of that line: what the indexing of
\* handle_char_input needs in order not to panic.
RowInRange(b) == b.cursor.location.row < Len(b.lines)
CurrentLine(b) == b.lines[b.cursor.location.row + 1]

\* A split that inserts the tail at the cursor's old row.
char_newline_above(b) ==
    LET row == b.cursor.location.row
        col == b.cursor.location.col
    IN IF ~RowInRange(b) \/ col > Len(CurrentLine(b)) THEN Panic(b)
       ELSE LET new_line == SplitOffTail(CurrentLine(b), col)
                kept == [b.lines EXCEPT ![row + 1] = SplitOffHead(CurrentLine(b), col)]
                c1 == set_row(b.cursor, row + 1)
            IN [b EXCEPT !.lines = InsertAt(kept, row, new_line),
                         !.cursor = set_col_with_affinity(c1, 0)]

\* handle_char_input, '\n' or '\r': split the line at the cursor.
char_newline(b) ==
    LET row == b.cursor.location.row
        col == b.cursor.location.col
    IN IF ~RowInRange(b) \/ col > Len(CurrentLine(b)) THEN Panic(b)
       ELSE LET new_line == SplitOffTail(CurrentLine(b), col)
                kept == [b.lines EXCEPT ![row + 1] = SplitOffHead(CurrentLine(b), col)]
                c1 == set_row(b.cursor, row + 1)
            IN [b EXCEPT !.lines = InsertAt(kept, c1.location.row, new_line),
                         !.cursor = set_col_with_affinity(c1, 0)]

\* A backspace whose merge reads the column after it has appended the line.
char_backspace_late_col(b) ==
    LET row == b.cursor.location.row
        col == b.cursor.location.col
    IN IF col > 0
       THEN IF ~RowInRange(b) \/ col - 1 >= Len(CurrentLine(b)) THEN Panic(b)
            ELSE [b EXCEPT !.lines[row + 1] = RemoveAt(CurrentLine(b), col - 1),
                           !.cursor = set_col_with_affinity(b.cursor, col - 1)]
       ELSE IF row > 0
       THEN IF ~RowInRange(b) THEN Panic(b)
            ELSE LET remaining == b.lines[row + 1]
                     removed == RemoveAt(b.lines, row)
                     merged == removed[row] \o remaining
                     c1 == set_row(b.cursor, row - 1)
                 IN [b EXCEPT !.lines = [removed EXCEPT ![row] = merged],
                              !.cursor = set_col_with_affinity(c1, Len(merged))]
       ELSE b

\* handle_char_input, '\u{8}': remove the character before the cursor, or
\* merge the line into the previous one.
char_backspace(b) ==
    LET row == b.cursor.location.row
        col == b.cursor.location.col
    IN IF col > 0
       THEN IF ~RowInRange(b) \/ col - 1 >= Len(CurrentLine(b)) THEN Panic(b)
            ELSE [b EXCEPT !.lines[row + 1] = RemoveAt(CurrentLine(b), col - 1),
                           !.cursor = set_col_with_affinity(b.cursor, col - 1)]
       ELSE IF row > 0
       THEN IF ~RowInRange(b) THEN Panic(b)
            ELSE LET remaining == b.lines[row + 1]
                     removed == RemoveAt(b.lines, row)
                     c1 == set_row(b.cursor, row - 1)
                     c2 == set_col_with_affinity(c1, Len(removed[c1.location.row + 1]))
                 IN [b EXCEPT !.lines = [removed EXCEPT ![c2.location.row + 1] =
                                             removed[c2.location.row + 1] \o remaining],
                              !.cursor = c2]
       ELSE b

\* A delete that, at the end of a line, joins the next line to it.
char_delete_joins(b) ==
    LET row == b.cursor.location.row
        col == b.cursor.location.col
    IN IF ~RowInRange(b) THEN Panic(b)
       ELSE IF Len(CurrentLine(b)) > col
            THEN [b EXCEPT !.lines[row + 1] = RemoveAt(CurrentLine(b), col)]
            ELSE IF row + 1 < Len(b.lines)
                 THEN [b EXCEPT !.lines = [RemoveAt(b.lines, row + 1) EXCEPT ![row + 1] =
                                               b.lines[row + 1] \o b.lines[row + 2]]]
                 ELSE b

\* handle_char_input, '\u{7f}': remove the character at the cursor.
char_delete(b) ==
    LET row == b.cursor.location.row
        col == b.cursor.location.col
    IN IF ~RowInRange(b) THEN Panic(b)
       ELSE IF Len(CurrentLine(b)) > col
            THEN [b EXCEPT !.lines[row + 1] = RemoveAt(CurrentLine(b), col)]
            ELSE b

\* handle_char_input, '\t': nothing.
char_tab(b) == b

\* An insert that pushes the character onto the end of the line.
char_insert_at_end(b, input) ==
    LET row == b.cursor.location.row
        col == b.cursor.location.col
    IN IF ~RowInRange(b) \/ col > Len(CurrentLine(b)) THEN Panic(b)
       ELSE [b EXCEPT !.lines[row + 1] = Append(CurrentLine(b), input),
                      !.cursor = set_col(b.cursor, col + 1)]

\* handle_char_input, any other character: insert it at the cursor.
char_insert(b, input) ==
    LET row == b.cursor.location.row
        col == b.cursor.location.col
    IN IF ~RowInRange(b) \/ col > Len(CurrentLine(b)) THEN Panic(b)
       ELSE [b EXCEPT !.lines[row + 1] = InsertAt(CurrentLine(b), col, input),
                      !.cursor = set_col(b.cursor, col + 1)]

\* The highlight rebuild that ends handle_char_input.
rebuild_highlight(b) ==
    [b EXCEPT !.highlight_info = generate_highlight_info(b.lines, b.highlight_info)]

\* Buffer::handle_char_input
handle_char_input(b, input) ==
    LET edited == IF input = "\n" \/ input = "\r" THEN char_newline(b)
                  ELSE IF input = Backspace THEN char_backspace(b)
                  ELSE IF input = Delete THEN char_delete(b)
                  ELSE IF input = "\t" THEN char_tab(b)
                  ELSE char_insert(b, input)
    IN IF edited.panicked THEN edited
       ELSE rebuild_highlight(ensure_cursor_in_view(edited))

\* An Up arm that takes the column affinity without clamping it to the length
\* of the line it moves to.
key_up_unclamped(b) ==
    LET row == Min(Max(b.cursor.location.row - 1, 0), Len(b.lines))
    IN IF row >= Len(b.lines) THEN Panic(b)
       ELSE LET c0 == [b.cursor EXCEPT !.selection_start = None]
            IN [b EXCEPT !.cursor = set_col(set_row(c0, row), b.cursor.col_affinity)]

\* handle_keyboard_input, VirtualKeyCode::Up
key_up(b) ==
    LET row == Min(Max(b.cursor.location.row - 1, 0), Len(b.lines))
    IN IF row >= Len(b.lines) THEN Panic(b)
       ELSE LET col == Min(Len(b.lines[row + 1]), b.cursor.col_affinity)
                c0 == [b.cursor EXCEPT !.selection_start = None]
            IN [b EXCEPT !.cursor = set_col(set_row(c0, row), col)]

\* handle_keyboard_input, VirtualKeyCode::Down
key_down(b) ==
    LET row == Min(Max(b.cursor.location.row + 1, 0), Len(b.lines) - 1)
    IN IF row < 0 \/ row >= Len(b.lines) THEN Panic(b)
       ELSE LET col == Min(Len(b.lines[row + 1]), b.cursor.col_affinity)
                c0 == [b.cursor EXCEPT !.selection_start = None]
            IN [b EXCEPT !.cursor = set_col(set_row(c0, row), col)]

\* A VirtualKeyCode::Left arm that drops the selection only when the cursor
\* moves: at the start of the document it leaves the Buffer as it is.
key_left_keeps_selection(b) ==
    LET row == b.cursor.location.row
        col == b.cursor.location.col
        c0 == [b.cursor EXCEPT !.selection_start = None]
    IN IF col = 0
       THEN IF row > 0
            THEN IF row - 1 >= Len(b.lines) THEN Panic(b)
                 ELSE [b EXCEPT !.cursor = set_col_with_affinity(set_row(c0, row - 1),
                                                                 Len(b.lines[row]))]
            ELSE b
       ELSE [b EXCEPT !.cursor = set_col_with_affinity(c0, col - 1)]

\* handle_keyboard_input, VirtualKeyCode::Left
key_left(b) ==
    LET row == b.cursor.location.row
        col == b.cursor.location.col
        c0 == [b.cursor EXCEPT !.selection_start = None]
    IN IF col = 0
       THEN IF row > 0
            THEN IF row - 1 >= Len(b.lines) THEN Panic(b)
                 ELSE [b EXCEPT !.cursor = set_col_with_affinity(set_row(c0, row - 1),
                                                                 Len(b.lines[row]))]
            ELSE [b EXCEPT !.cursor = c0]
       ELSE [b EXCEPT !.cursor = set_col_with_affinity(c0, col - 1)]

\* handle_keyboard_input, VirtualKeyCode::Right
key_right(b) ==
    LET row == b.cursor.location.row
        col == b.cursor.location.col
        c0 == [b.cursor EXCEPT !.selection_start = None]
    IN IF ~RowInRange(b) THEN Panic(b)
       ELSE IF col >= Len(CurrentLine(b))
            THEN IF row < Len(b.lines) - 1
                 THEN [b EXCEPT !.cursor = set_col_with_affinity(set_row(c0, row + 1), 0)]
                 ELSE [b EXCEPT !.cursor = c0]
            ELSE [b EXCEPT !.cursor = set_col_with_affinity(c0, col + 1)]

\* A handle_keyboard_input that returns early only for an event with no
\* keycode: a release of a key that is no arrow reaches ensure_cursor_in_view.
handle_keyboard_input_on_release(b, keycode, state) ==
    IF keycode = "NoKeycode" THEN b
    ELSE LET moved == IF state = "Released" THEN b
                      ELSE IF keycode = "Up" THEN key_up(b)
                      ELSE IF keycode = "Down" THEN key_down(b)
                      ELSE IF keycode = "Left" THEN key_left(b)
                      ELSE IF keycode = "Right" THEN key_right(b)
                      ELSE b
         IN IF moved.panicked THEN moved ELSE ensure_cursor_in_view(moved)

\* Buffer::handle_keyboard_input: nothing for an event with no keycode or a
\* release; otherwise the key's arm, then ensure_cursor_in_view.
handle_keyboard_input(b, keycode, state) ==
    IF keycode = "NoKeycode" \/ state = "Released" THEN b
    ELSE LET moved == IF keycode = "Up" THEN key_up(b)
                      ELSE IF keycode = "Down" THEN key_down(b)
                      ELSE IF keycode = "Left" THEN key_left(b)
                      ELSE IF keycode = "Right" THEN key_right(b)
                      ELSE b
         IN IF moved.panicked THEN moved ELSE ensure_cursor_in_view(moved)

\* ------------------------------------------------------------------- state

VARIABLES
    lines,           \* Buffer.lines
    highlight_info,  \* Buffer.highlight_info
    scroll,          \* Buffer.scroll
    cursor,          \* Buffer.cursor
    dragging,        \* Buffer.dragging
    size,            \* Buffer.size (the height; the handlers do not read the width)
    panicked,        \* a handler indexed out of range and the program stopped
    disk,            \* what save() last wrote to Buffer.path; None before the
                     \* first save (the file is then as Buffer::new read it)
    call,            \* the last call of a method of Span made on its own: the
                     \* method, its arguments and what it returned
    press_location   \* where the last left mouse press put the cursor, while
                     \* its button is still down and the run keeps track of
                     \* it; None otherwise

vars == <<lines, highlight_info, scroll, cursor, dragging, size, panicked, disk, call,
          press_location>>

\* No method of Span has been called on its own.
NoCall == [op |-> "none"]

\* The Buffer value of the current state.
Self ==
    [lines |-> lines, highlight_info |-> highlight_info, scroll |-> scroll,
     cursor |-> cursor, dragging |-> dragging, size |-> size, panicked |-> panicked]

\* The current state holds the Buffer value n.
Holds(n) ==
    /\ lines = n.lines
    /\ highlight_info = n.highlight_info
    /\ scroll = n.scroll
    /\ cursor = n.cursor
    /\ dragging = n.dragging
    /\ size = n.size
    /\ panicked = n.panicked

\* The next state holds the Buffer value n.
Becomes(n) ==
    /\ lines' = n.lines
    /\ highlight_info' = n.highlight_info
    /\ scroll' = n.scroll
    /\ cursor' = n.cursor
    /\ dragging' = n.dragging
    /\ size' = n.size
    /\ panicked' = n.panicked

\* The buffers the model holds.
WithinBounds(b) == Len(b.lines) <= MaxLines /\ TotalChars(b.lines) <= MaxChars

\* The files Buffer::new is given, over the ordinary characters `letters`.
Files(letters) ==
    {f \in SeqsUpTo(letters \cup {"\n"}, MaxFileLen) : WithinBounds(new(0, f))}

\* Buffer::new(size, file_name) on a file over `letters`, for a viewport
\* height of `heights`.
New(letters, heights) ==
    \E f \in Files(letters), h \in heights :
        /\ Holds(new(h, f))
        /\ disk = None
        /\ call = NoCall
        /\ press_location = None

\* handle_char_input(input) for an input of `inputs`.
CharInput(inputs) ==
    \E input \in inputs :
        LET n == handle_char_input(Self, input)
        IN /\ ~panicked
           /\ WithinBounds(n)
           /\ Becomes(n)
           /\ UNCHANGED <<disk, call, press_location>>

\* handle_keyboard_input(input)
HandleKeyboardInput ==
    \E keycode \in KeyCodes, state \in ElementStates :
        /\ ~panicked
        /\ Becomes(handle_keyboard_input(Self, keycode, state))
        /\ UNCHANGED <<disk, call, press_location>>

\* handle_mouse_input(button, state, position); only a left press reads the
\* position.  With `track`, press_location remembers where a left press put
\* the cursor until the left button is released.
MouseInput(track) ==
    \E button \in MouseButtons, state \in ElementStates :
        \E position \in IF button = "Left" /\ state = "Pressed"
                        THEN PositionXs \X PositionYs ELSE {<<0, 0>>} :
            LET n == handle_mouse_input(Self, button, state, position)
            IN /\ ~panicked
               /\ Becomes(n)
               /\ press_location' =
                      IF track /\ button = "Left"
                      THEN IF state = "Pressed" THEN Some(n.cursor.location) ELSE None
                      ELSE press_location
               /\ UNCHANGED <<disk, call>>

HandleMouseInput == MouseInput(FALSE)

\* handle_mouse_move(position); only a drag reads the position.
HandleMouseMove ==
    \E position \in IF dragging THEN PositionXs \X PositionYs ELSE {<<0, 0>>} :
        /\ ~panicked
        /\ Becomes(handle_mouse_move(Self, position))
        /\ UNCHANGED <<disk, call, press_location>>

\* scroll(delta)
Scroll ==
    \E delta \in Deltas :
        /\ ~panicked
        /\ Becomes(scroll_by(Self, delta))
        /\ UNCHANGED <<disk, call, press_location>>

\* update_size(size)
UpdateSize ==
    \E h \in Heights :
        /\ ~panicked
        /\ Becomes(update_size(Self, h))
        /\ UNCHANGED <<disk, call, press_location>>

\* save()
Save ==
    /\ ~panicked
    /\ disk' = Some(save(Self))
    /\ UNCHANGED <<lines, highlight_info, scroll, cursor, dragging, size, panicked, call, press_location>>

\* Buffer::new on the path save() wrote, with the same viewport size.
Load ==
    /\ ~panicked
    /\ ~IsNone(disk)
    /\ Becomes(new(size.height, Unwrap(disk)))
    /\ UNCHANGED <<disk, call, press_location>>

\* ---------------------------------------------------------- specifications

\* Spec: every event handler of a Buffer, on text of one letter.
Init == New(Letter, Heights)

HandleCharInput == CharInput(Letter \cup Controls)

Next ==
    \/ HandleCharInput
    \/ HandleKeyboardInput
    \/ HandleMouseInput
    \/ HandleMouseMove
    \/ Scroll
    \/ UpdateSize

Spec == Init /\ [][Next]_vars

\* SpecText: the keyboard's handlers, on text of two letters.
InitText == New(Alphabet, Heights)

HandleCharInputText == CharInput(Alphabet \cup Controls)

NextText ==
    \/ HandleCharInputText
    \/ HandleKeyboardInput

SpecText == InitText /\ [][NextText]_vars

\* SpecIO: the keyboard's handlers, save() and Buffer::new on the saved path.
\* A file may hold '\r', which split('\n') leaves in its line.  The viewport
\* has one height: neither save() nor Buffer::new reads it.
InitIO == New(Letter \cup {"\r"}, {50})

NextIO ==
    \/ HandleCharInput
    \/ HandleKeyboardInput
    \/ Save
    \/ Load

SpecIO == InitIO /\ [][NextIO]_vars

\* SpecDrag: the six handlers as in Spec, for one viewport height, with the
\* location a left press gave the cursor remembered while the drag lasts.
InitDrag == New(Letter, {50})

HandleMouseInputDrag == MouseInput(TRUE)

NextDrag ==
    \/ HandleCharInput
    \/ HandleKeyboardInput
    \/ HandleMouseInputDrag
    \/ HandleMouseMove
    \/ Scroll
    \/ UpdateSize

SpecDrag == InitDrag /\ [][NextDrag]_vars

\* SpecSpan: the methods of Span, called on their own.  The initial state
\* holds the arguments of one call, the action makes the call and records
\* what it returned; the Buffer is not touched.  A document is given by the
\* lengths of its lines.
SpanDocs == {d \in SeqsUpTo(0..MaxLineLen, MaxSpanLines) : d # <<>>}

\* The valid locations of a document.
LocationsOf(doc) ==
    {l \in [row : 0..(Len(doc) - 1), col : 0..MaxLineLen] : l.col <= doc[l.row + 1]}

\* Any locations, valid in a document or not.
AnyLocations == [row : 0..MaxSpanLines, col : 0..(MaxLineLen + 1)]

\* The calls Span::new(start, end), not yet made.
SpanNewCalls ==
    {[op |-> "new", start |-> a, end |-> b, returned |-> <<>>] :
        a \in AnyLocations, b \in AnyLocations}

\* The calls Span::new(start, end).get_char_indices_for_line(line,
\* line_length), not yet made, for two locations of a document and a row:
\* one of the document, with its length, or the row after the last.
GetCharIndicesCalls ==
    UNION {{[op |-> "get_char_indices_for_line", doc |-> doc, start |-> a, end |-> b,
             line |-> line,
             line_length |-> IF line < Len(doc) THEN doc[line + 1] ELSE 0,
             returned |-> <<>>] :
                a \in LocationsOf(doc), b \in LocationsOf(doc), line \in 0..Len(doc)} :
           doc \in SpanDocs}

BufferUnchanged ==
    UNCHANGED <<lines, highlight_info, scroll, cursor, dragging, size, panicked, disk,
                press_location>>

\* Span::new(start, end)
SpanNew ==
    /\ call.op = "new"
    /\ call.returned = <<>>
    /\ call' = [call EXCEPT !.returned = <<span_new(call.start, call.end)>>]
    /\ BufferUnchanged

\* Span::new(start, end).get_char_indices_for_line(line, line_length)
GetCharIndicesForLine ==
    /\ call.op = "get_char_indices_for_line"
    /\ call.returned = <<>>
    /\ call' = [call EXCEPT !.returned =
                    <<get_char_indices_for_line(span_new(call.start, call.end),
                                                call.line, call.line_length)>>]
    /\ BufferUnchanged

InitSpan ==
    /\ Holds(new(0, <<>>))
    /\ disk = None
    /\ press_location = None
    /\ call \in SpanNewCalls \cup GetCharIndicesCalls

NextSpan ==
    \/ SpanNew
    \/ GetCharIndicesForLine

SpecSpan == InitSpan /\ [][NextSpan]_vars

\* ------------------------------------------------------------------ claims

Row == cursor.location.row
Col == cursor.location.col
\* The Buffer after handle_char_input(input) in the current state.
AfterChar(input) == handle_char_input(Self, input)
\* The Buffer after a press of the key in the current state.
AfterKey(keycode) == handle_keyboard_input(Self, keycode, "Pressed")

\* C1: whatever chars, key presses, mouse events and scroll calls a loaded
\* buffer has handled, its line sequence holds at least one line.
C1_AtLeastOneLine == Len(lines) >= 1

\* C1's case: the cursor is at the start of the second of two lines, where a
\* backspace removes a line and leaves the single merged line.
C1_Witness ==
    /\ Len(lines) = 2
    /\ cursor.location = Location(1, 0)
    /\ Len(AfterChar(Backspace).lines) = 1

\* C2: a newline ('\n', or '\r') with the cursor at (r, c) splits line r at
\* column c: line r becomes its first c characters, line r + 1 the rest, the
\* other lines keep their content and order, one line is added, and the cursor
\* is at (r + 1, 0) with affinity 0.
C2_NewlineSplits ==
    \A input \in {"\n", "\r"} :
        LET n == AfterChar(input)
        IN /\ ~n.panicked
           /\ Len(n.lines) = Len(lines) + 1
           /\ Len(n.lines[Row + 1]) = Col
           /\ n.lines[Row + 1] \o n.lines[Row + 2] = lines[Row + 1]
           /\ \A i \in 1..Len(lines) :
                  /\ i < Row + 1 => n.lines[i] = lines[i]
                  /\ i > Row + 1 => n.lines[i + 1] = lines[i]
           /\ n.cursor.location = Location(Row + 1, 0)
           /\ n.cursor.col_affinity = 0

\* C2's case: the cursor is inside a line, between two different letters, and
\* the newline handled there leaves one letter on each side of the split.
C2_Witness ==
    /\ lines = <<<<"a", "b">>>>
    /\ cursor.location = Location(0, 1)
    /\ AfterChar("\n").lines = <<<<"a">>, <<"b">>>>
    /\ AfterChar("\n").cursor.location = Location(1, 0)

\* C3: a backspace with the cursor at (r, 0), r > 0, merges line r into line
\* r - 1: line r - 1 becomes its old content followed by old line r, old line
\* r is removed, the other lines are unchanged, and the cursor is at
\* (r - 1, L) with affinity L, L the old length of line r - 1.
C3_BackspaceMerges ==
    (Row > 0 /\ Col = 0) =>
        LET n == AfterChar(Backspace)
            L == Len(lines[Row])
        IN /\ ~n.panicked
           /\ Len(n.lines) = Len(lines) - 1
           /\ n.lines[Row] = lines[Row] \o lines[Row + 1]
           /\ \A i \in 1..Len(lines) :
                  /\ i < Row => n.lines[i] = lines[i]
                  /\ i > Row + 1 => n.lines[i - 1] = lines[i]
           /\ n.cursor.location = Location(Row - 1, L)
           /\ n.cursor.col_affinity = L

\* C3's case: the cursor is at the start of a non-empty line below a
\* non-empty line, and the backspace handled there merges the two.
C3_Witness ==
    /\ lines = <<<<"a">>, <<"b">>>>
    /\ cursor.location = Location(1, 0)
    /\ AfterChar(Backspace).lines = <<<<"a", "b">>>>
    /\ AfterChar(Backspace).cursor.location = Location(0, 1)

\* Whether a file content ends with a newline.
EndsWithNewline(content) == content # <<>> /\ content[Len(content)] = "\n"

\* C4: in every state reached by load and edits, save() followed by load on
\* the same path gives the same line sequence again; the loaded lines end with
\* an empty line after the last newline exactly when the saved content ends
\* with a newline.
C4_SaveLoadRoundTrip ==
    LET content == save(Self)
        loaded == new(size.height, content)
    IN /\ loaded.lines = lines
       /\ (Len(loaded.lines) >= 2 /\ loaded.lines[Len(loaded.lines)] = <<>>)
              <=> EndsWithNewline(content)

\* C4's case: save() has written a content that ends with a newline, and the
\* state is the buffer loaded from it, the trailing empty line included.
C4_Witness ==
    /\ ~IsNone(disk)
    /\ EndsWithNewline(Unwrap(disk))
    /\ Unwrap(disk) = save(Self)
    /\ Holds(new(size.height, Unwrap(disk)))
    /\ Len(lines) >= 2
    /\ lines[Len(lines)] = <<>>
    /\ lines[1] # <<>>

\* C5: ensure_cursor_in_view is idempotent: applied twice in a row, the second
\* application leaves scroll as the first left it.
C5_EnsureIdempotent ==
    ensure_cursor_in_view(ensure_cursor_in_view(Self)).scroll
        = ensure_cursor_in_view(Self).scroll

\* max_scroll for the current line count.
MaxScroll == (Len(lines) - 1) * SCALE + Margin

\* C6: in every state, scroll lies in [0, max_scroll], max_scroll taken from
\* the current line count.
C6_ScrollInRange == 0 <= scroll /\ scroll <= MaxScroll

\* C7: after load and after every char input, the highlight index has one run
\* list per line, and entry i is the highlighter's output for line i of the
\* current line sequence.
C7_HighlightInSync ==
    /\ Len(highlight_info) = Len(lines)
    /\ \A i \in 1..Len(lines) :
           highlight_info[i] = Runs(Colours(StateBefore(lines, i), lines[i]), 0)

\* C7's case: a char was inserted last (only an insertion leaves the column
\* beyond the affinity) and the index holds the runs of the edited lines, the
\* second line coloured by the parse state the first line leaves.
C7_Witness ==
    /\ Col > cursor.col_affinity
    /\ lines = <<<<"b">>, <<"a">>>>
    /\ highlight_info = <<<<<<0, 1, "delimiter">>>>, <<<<0, 1, "literal">>>>>>

\* C8: Down then Up from (r, c), r not the last row, returns the cursor to
\* (r, c); so does Up then Down when r is not the first row.
C8_VerticalRoundTrip ==
    /\ Row < Len(lines) - 1 =>
           handle_keyboard_input(AfterKey("Down"), "Up", "Pressed").cursor.location
               = cursor.location
    /\ Row > 0 =>
           handle_keyboard_input(AfterKey("Up"), "Down", "Pressed").cursor.location
               = cursor.location

\* C9: Down with the cursor on the last row, and Up with the cursor on the
\* first row, leave the cursor's row and column unchanged.
C9_VerticalBoundaryNoOp ==
    /\ Row = Len(lines) - 1 => AfterKey("Down").cursor.location = cursor.location
    /\ Row = 0 => AfterKey("Up").cursor.location = cursor.location

\* The Buffer n has the lines and the cursor (location, affinity, selection
\* anchor) of the current state, and no handler panicked.
SameDocumentAndCursor(n) == ~n.panicked /\ n.lines = lines /\ n.cursor = cursor

\* C10: a backspace with the cursor at (0, 0), a forward-delete with the
\* cursor at the end of its line, and a tab each leave the line sequence and
\* the cursor unchanged and index nothing out of bounds.
C10_BoundaryEditsNoOp ==
    /\ (Row = 0 /\ Col = 0) => SameDocumentAndCursor(AfterChar(Backspace))
    /\ (RowInRange(Self) => Col >= Len(lines[Row + 1]))
           => SameDocumentAndCursor(AfterChar(Delete))
    /\ SameDocumentAndCursor(AfterChar("\t"))

\* C10's case: with a selection, the cursor is at (0, 0) on an empty first
\* line that another line follows, where a backspace, a forward-delete and a
\* tab are all at a boundary, and each handled there changes nothing.
C10_Witness ==
    /\ ~IsNone(cursor.selection_start)
    /\ cursor.location = Location(0, 0)
    /\ lines = <<<<>>, <<"a">>>>
    /\ SameDocumentAndCursor(AfterChar(Backspace))
    /\ SameDocumentAndCursor(AfterChar(Delete))
    /\ SameDocumentAndCursor(AfterChar("\t"))

\* Pointer positions the claims about hit_test range over: left of, in and
\* right of the text, above, in and below the window.
ProbeXs == {-20, 0, 69, 70, 100, 300}
ProbeYs == {-50, -1, 0, 39, 40, 45, 500}

\* Whether loc is a location of the current document.
ValidLocation(loc) ==
    /\ 0 <= loc.row /\ loc.row < Len(lines)
    /\ 0 <= loc.col /\ loc.col <= Len(lines[loc.row + 1])

\* C11: for every pointer position and scroll value hit_test gives a valid
\* location; a document-relative y at or beyond the last line gives the end of
\* the last line; and a left mouse press puts the cursor at that location.
C11_HitTestValid ==
    \A position \in ProbeXs \X ProbeYs :
        LET loc == hit_test(Self, position)
            pressed == handle_mouse_input(Self, "Left", "Pressed", position)
        IN /\ ValidLocation(loc)
           /\ (position[2] + scroll) \div SCALE >= Len(lines)
                  => loc = Location(Len(lines) - 1, Len(lines[Len(lines)]))
           /\ ~pressed.panicked
           /\ pressed.cursor.location = loc
           /\ pressed.lines = lines

\* C11's case: a left press is the last thing that moved the cursor (a drag
\* is armed and nothing is selected), the view is scrolled, the pointer was
\* below the document and the cursor is at the end of the non-empty last line;
\* a pointer right of a shorter first line is clamped to its length.
C11_Witness ==
    /\ dragging
    /\ IsNone(cursor.selection_start)
    /\ scroll > 0
    /\ lines = <<<<>>, <<"a">>>>
    /\ cursor.location = Location(1, 1)
    /\ hit_test(Self, <<0, 500>>) = cursor.location
    /\ hit_test(Self, <<300, -50>>) = Location(0, 0)

\* ---------------------------------------------------------------- Span claims

\* The order of locations the specification names: by row, then by column.
RowFirst(a, b) == a.row < b.row \/ (a.row = b.row /\ a.col <= b.col)

\* A call of a method of Span has returned.
Returned(op) == call.op = op /\ call.returned # <<>>

\* C12: Span::new(a, b) returns the span whose start is the smaller and whose
\* end is the larger of a and b in the row-first order, so start <= end, and
\* Span::new(a, b) = Span::new(b, a).
C12_SpanNewOrdered ==
    Returned("new") =>
        LET a == call.start
            b == call.end
            span == call.returned[1]
        IN /\ span.start = (IF RowFirst(a, b) THEN a ELSE b)
           /\ span.end = (IF RowFirst(a, b) THEN b ELSE a)
           /\ RowFirst(span.start, span.end)
           /\ span = span_new(b, a)

\* C12's case: Span::new was given its arguments in the wrong order, the
\* first on a later row but at a smaller column, and returned them swapped.
C12_Witness ==
    /\ Returned("new")
    /\ call.start = Location(1, 0)
    /\ call.end = Location(0, 1)
    /\ call.returned[1] = [start |-> Location(0, 1), end |-> Location(1, 0)]

\* C13: for the span between two valid locations of a document and any row,
\* get_char_indices_for_line returns None exactly when the row is outside
\* [start.row, end.row]; otherwise (start.col, end.col) for a span of one row,
\* (start.col, line_length) on the first row of a longer span, (0, end.col) on
\* its last row and (0, line_length) on a row in between; and the pair (s, e)
\* returned satisfies s <= e <= line_length.
C13_CharIndicesForLine ==
    Returned("get_char_indices_for_line") =>
        LET a == call.start
            b == call.end
            start == IF RowFirst(a, b) THEN a ELSE b
            end == IF RowFirst(a, b) THEN b ELSE a
            line == call.line
            line_length == call.line_length
            result == call.returned[1]
        IN /\ IsNone(result) <=> (line < start.row \/ line > end.row)
           /\ ~IsNone(result) =>
                 LET s == Unwrap(result)[1]
                     e == Unwrap(result)[2]
                 IN /\ start.row = end.row => s = start.col /\ e = end.col
                    /\ start.row # end.row /\ line = start.row
                          => s = start.col /\ e = line_length
                    /\ start.row # end.row /\ line = end.row
                          => s = 0 /\ e = end.col
                    /\ start.row < line /\ line < end.row
                          => s = 0 /\ e = line_length
                    /\ s <= e
                    /\ e <= line_length

\* C13's case: the span was given end first and covers three rows, and the
\* row asked for is the one in between, whose whole length is returned.
C13_Witness ==
    /\ Returned("get_char_indices_for_line")
    /\ call.doc = <<1, 1, 1>>
    /\ call.start = Location(2, 0)
    /\ call.end = Location(0, 1)
    /\ call.line = 1
    /\ call.returned[1] = Some(<<0, 1>>)

\* ----------------------------------------------------------- Selection claims

ArrowKeys == {"Up", "Down", "Left", "Right"}

\* C14: right after a press of any arrow key, and right after a press of the
\* left mouse button at any position, the selection anchor is None.
C14_ArrowsAndPressClearSelection ==
    ~panicked =>
        /\ \A keycode \in ArrowKeys :
               IsNone(handle_keyboard_input(Self, keycode, "Pressed").cursor.selection_start)
        /\ \A position \in ProbeXs \X ProbeYs :
               IsNone(handle_mouse_input(Self, "Left", "Pressed", position)
                          .cursor.selection_start)

\* C14's case: a drag has selected from the start of the document to the end
\* of its first line, and the pointer button is up again; an arrow key or a
\* left press now drops the anchor.
C14_Witness ==
    /\ ~panicked
    /\ ~dragging
    /\ cursor.selection_start = Some(Location(0, 0))
    /\ cursor.location = Location(0, 1)
    /\ IsNone(handle_keyboard_input(Self, "Left", "Pressed").cursor.selection_start)
    /\ IsNone(handle_mouse_input(Self, "Left", "Pressed", <<0, 500>>).cursor.selection_start)

\* C15: between a left mouse press and the next left release, whatever events
\* come in between, a selection anchor that is set equals the location that
\* press gave the cursor, and a mouse-move made when the anchor is set changes
\* the cursor only, not the anchor.
C15_DragAnchorIsPressLocation ==
    (dragging /\ ~IsNone(press_location) /\ ~IsNone(cursor.selection_start)) =>
        /\ cursor.selection_start = press_location
        /\ \A position \in ProbeXs \X ProbeYs :
               handle_mouse_move(Self, position).cursor.selection_start
                   = cursor.selection_start

\* ------------------------------------------------------------- Scroll claims

\* The events that change neither the document nor the cursor and never reach
\* ensure_cursor_in_view leave scroll as it is: mouse press, release and move,
\* a resize, a key release and a key event without a keycode.
ScrollKeptByOtherEvents ==
    /\ \A button \in MouseButtons, state \in ElementStates, position \in ProbeXs \X ProbeYs :
           handle_mouse_input(Self, button, state, position).scroll = scroll
    /\ \A position \in ProbeXs \X ProbeYs : handle_mouse_move(Self, position).scroll = scroll
    /\ \A height \in Heights : update_size(Self, height).scroll = scroll
    /\ \A keycode \in KeyCodes : handle_keyboard_input(Self, keycode, "Released").scroll = scroll
    /\ handle_keyboard_input(Self, "NoKeycode", "Pressed").scroll = scroll

\* C16 as stated: scroll changes only through scroll(delta) or the visibility
\* correction after an edit or navigation that moved the cursor; mouse events,
\* a resize, and every key or char event that leaves the cursor location
\* unchanged (tab, no-op backspace or delete, key release, non-arrow key,
\* clamped arrow) leave scroll unchanged.
C16_ScrollOnlyWhenCursorMoves ==
    ~panicked =>
        /\ ScrollKeptByOtherEvents
        /\ \A input \in Letter \cup Controls :
               AfterChar(input).cursor.location = cursor.location
                   => AfterChar(input).scroll = scroll
        /\ \A keycode \in KeyCodes :
               AfterKey(keycode).cursor.location = cursor.location
                   => AfterKey(keycode).scroll = scroll

\* Buffer n has the scroll of the current state, or the one the visibility
\* correction gives for n's cursor row: the row's top when that is above the
\* current scroll, the row's bottom plus the margin less the viewport height
\* when the row's bottom is below the viewport's.
ScrollKeptOrCorrected(n) ==
    LET cursor_y == n.cursor.location.row * SCALE
    IN \/ n.scroll = scroll
       \/ cursor_y < scroll /\ n.scroll = cursor_y
       \/ /\ cursor_y >= scroll
          /\ cursor_y + SCALE > scroll + n.size.height
          /\ n.scroll = cursor_y + SCALE + Margin - n.size.height

\* C16, amended: scroll changes only through scroll(delta) or the visibility
\* correction, which follows every char input and every press of a key with a
\* keycode, whether or not the event moved the cursor; mouse events, a resize,
\* key releases and key events without a keycode leave scroll unchanged.
C16_ScrollOnlyByCorrection ==
    ~panicked =>
        /\ ScrollKeptByOtherEvents
        /\ \A input \in Letter \cup Controls :
               ~AfterChar(input).panicked => ScrollKeptOrCorrected(AfterChar(input))
        /\ \A keycode \in KeyCodes :
               ~AfterKey(keycode).panicked => ScrollKeptOrCorrected(AfterKey(keycode))

\* C16's case: in a viewport that holds a line and the margin,
\* scroll(delta) has moved the view below the cursor's row, and a tab, which edits nothing and leaves the cursor where it is, brings the
\* view back to the cursor; so does a press of a key that is no arrow.
C16_Witness ==
    /\ ~panicked
    /\ Row = 0
    /\ size.height >= SCALE + Margin
    /\ scroll = SCALE
    /\ AfterChar("\t").cursor.location = cursor.location
    /\ AfterChar("\t").lines = lines
    /\ AfterChar("\t").scroll = 0
    /\ AfterKey("A").scroll = 0

\* The cursor's row of Buffer n lies fully inside n's viewport.
CursorRowInView(n) ==
    LET cursor_y == n.cursor.location.row * SCALE
    IN /\ n.scroll <= cursor_y
       /\ cursor_y + SCALE <= n.scroll + n.size.height

\* C17: after every char input and every key press, when the viewport is at
\* least one line high, the cursor's row is fully inside the viewport:
\* scroll <= cursor_row * line_height and
\* cursor_row * line_height + line_height <= scroll + viewport_height.
C17_CursorRowInView ==
    (~panicked /\ size.height >= SCALE) =>
        /\ \A input \in Letter \cup Controls :
               ~AfterChar(input).panicked => CursorRowInView(AfterChar(input))
        /\ \A keycode \in KeyCodes \ {"NoKeycode"} :
               ~AfterKey(keycode).panicked => CursorRowInView(AfterKey(keycode))

\* ------------------------------------------------------- Valid-location claims

\* C18: in every state reached by char inputs, key presses, mouse events and
\* scroll calls the cursor is a valid location of the document, row < line
\* count and col <= length of that row's line, and so no handler has indexed
\* a line or a column out of range.
C18_CursorValid ==
    /\ ~panicked
    /\ ValidLocation(cursor.location)

\* C18's case: the cursor is at the end of the second line and the first
\* line is shorter.  Up clamps the column to the shorter line's length, and a
\* backspace at the start of the second line puts the cursor at the join.
C18_Witness ==
    /\ ~panicked
    /\ lines = <<<<>>, <<"a">>>>
    /\ cursor.location = Location(1, 1)
    /\ cursor.col_affinity = 1
    /\ AfterKey("Up").cursor.location = Location(0, 0)
    /\ AfterChar(Backspace).cursor.location = Location(1, 0)
    /\ handle_char_input(AfterChar(Backspace), Backspace).cursor.location = Location(0, 0)

\* C19: in every state where the selection anchor is set, the anchor is a
\* valid location of the document, also after edits made while a selection
\* exists, so the selection's column range on every row stays within that
\* row's length.
C19_AnchorValid ==
    (~panicked /\ ~IsNone(cursor.selection_start)) =>
        /\ ValidLocation(Unwrap(cursor.selection_start))
        /\ \A row \in 0..(Len(lines) - 1) :
               LET indices == get_char_indices_for_line(Unwrap(selection_span(cursor)), row,
                                                        Len(lines[row + 1]))
               IN ~IsNone(indices) => Unwrap(indices)[2] <= Len(lines[row + 1])

\* ----------------------------------------------------------- Round-trip claim

\* Buffer n has the line sequence and the cursor location of the current state.
SameLinesAndLocation(n) ==
    /\ ~n.panicked
    /\ n.lines = lines
    /\ n.cursor.location = cursor.location

\* C20: from any reachable state, a newline input followed at once by a
\* backspace input restores the line sequence and the cursor location, and so
\* does an ordinary character input followed at once by a backspace input.
C20_InputThenBackspace ==
    ~panicked =>
        /\ SameLinesAndLocation(handle_char_input(AfterChar("\n"), Backspace))
        /\ SameLinesAndLocation(handle_char_input(AfterChar("\r"), Backspace))
        /\ \A input \in Alphabet :
               SameLinesAndLocation(handle_char_input(AfterChar(input), Backspace))

\* C20's case: the cursor is in the middle of a line of two different
\* characters, on the second row; the newline splits the line between them
\* and the backspace joins the halves again, and an inserted character is
\* removed again from between them.
C20_Witness ==
    /\ ~panicked
    /\ lines = <<<<>>, <<"a", "b">>>>
    /\ cursor.location = Location(1, 1)
    /\ AfterChar("\n").lines = <<<<>>, <<"a">>, <<"b">>>>
    /\ AfterChar("\n").cursor.location = Location(2, 0)
    /\ AfterChar("b").lines = <<<<>>, <<"a", "b", "b">>>>
    /\ AfterChar("b").cursor.location = Location(1, 2)

====
